---- MODULE Spec2Model ----
(***************************************************************************)
(* The Module Loader of wave/core/moduleloader (ModuleLoaderSystem):       *)
(* loadModule, unloadModule, reloadModule, internalUnloadModule, the       *)
(* destructor and broadcastEvent, as a state machine of caller threads     *)
(* that share one std::mutex and one std::map of ModuleInfo.               *)
(***************************************************************************)
EXTENDS Integers, Sequences, FiniteSets, TLC

\* Number of caller threads.
NThreads == 2

Threads == 1..NThreads

\* The library files a caller may name.  pa and pb hold modules that report
\* the same name, the libraries pb and pc export no destroy_module_instance,
\* pn is a library without create_module_instance, px is no loadable file.
Paths == {"pa", "pb", "pc", "pn", "px"}

Names == {"A", "B"}

\* std::map iterates its keys in order.
KeyOrder == <<"A", "B", "pa", "pb", "pc", "pn", "px">>

LibExists(p) == p # "px"

LibHasCreate(p) == p # "pn"

LibHasDestroy(p) == p = "pa"

LibName(p) == IF p = "pc" THEN "B" ELSE "A"

LibVersion(p) == IF p = "pb" THEN "2.0.0" ELSE "1.0.0"

\* Handles and instances are numbered; 0 is nullptr.  dlopen names a library
\* by one handle however often it is opened, so the handle's number is the
\* path's; the instance a library's factory makes is numbered like its
\* library (a library has at most one instance at a time).
HandleOf(p) ==
    CASE p = "pa" -> 1 [] p = "pb" -> 2 [] p = "pc" -> 3 [] p = "pn" -> 4 [] OTHER -> 5

\* Faults the environment raises in one run: a factory, initialize(),
\* shutdown() or destroy_module_instance that throws, a factory that returns
\* nullptr, a dlclose that fails.
MaxFaults == 2

\* Callbacks a run subscribes.
MaxCallbacks == 2

\* What a callback does when invoked: it returns, it throws, or it calls
\* subscribeToModuleEvents.
Callbacks == {"returns", "throws", "subscribes"}

VARIABLES
    CppModuleMutex,    \* 0 when free, else the thread that owns the mutex
    CppLoadedModules,  \* the registry: key -> ModuleInfo
    pc,                \* each thread's position
    op,                \* the public operation each thread is in
    modulePath,        \* loadModule's / reloadModule's modulePath
    moduleName,        \* the moduleName argument or local
    libHandle,         \* libHandle / infoToUnload.libraryHandle
    moduleInstance,    \* moduleInstance / infoToUnload.instance
    res,               \* the ModuleResult last produced for the thread
    evts,              \* events broadcast during the thread's current call
    thrown,            \* faults raised in the thread's current call
    faults,            \* faults raised so far
    openLibs,          \* handles dlopen returned and dlclose has not closed
    shutInsts,         \* instances whose shutdown() has been invoked
    deadInsts,         \* instances handed to destroy_module_instance
    leaked,            \* some handle was dropped while still open
    tdNames,           \* the destructor's moduleNames still to visit
    regBefore,         \* history: the registry and path of an earlier load
    CppEventCallbacks, \* the subscribed callbacks, in the order subscribed
    listed             \* what listModules last returned to each thread

vars == <<CppModuleMutex, CppLoadedModules, pc, op, modulePath, moduleName,
          libHandle, moduleInstance, res, evts, thrown, faults, openLibs,
          shutInsts, deadInsts, leaked, tdNames, regBefore, CppEventCallbacks,
          listed>>

\* What no step of loadModule, unloadModule, reloadModule or the destructor
\* writes.
subs == <<CppEventCallbacks, listed>>

locals == <<modulePath, moduleName, libHandle, moduleInstance>>

objs == <<openLibs, shutInsts, deadInsts, leaked>>

\* ModuleInfo() : libraryHandle(nullptr), instance(nullptr)
DefaultInfo ==
    [name |-> "", version |-> "", path |-> "", libraryHandle |-> 0, instance |-> 0]

PathInfo(p) == [DefaultInfo EXCEPT !.path = p]

NameInfoUnnamed(n) == DefaultInfo

NameInfo(n) == [DefaultInfo EXCEPT !.name = n]

\* ModuleResult(status, message, module); has = module.has_value()
ModuleResult(s, m, h, mi) == [status |-> s, msg |-> m, has |-> h, module |-> mi]

NoResult == ModuleResult("None", "", FALSE, DefaultInfo)

\* No ModuleResult comes back: an exception thrown by what leaves the call.
Escaped(what) == ModuleResult("Exception", what, FALSE, DefaultInfo)

\* No list has been returned: a value listModules never returns, the list
\* of one default-constructed ModuleInfo.
NoList == <<DefaultInfo>>

EmptyRegistry == [k \in {} |-> DefaultInfo]

\* What a scenario remembers of an earlier call: the registry when it was made
\* and the path it was given.
NoHistory == [set |-> FALSE, reg |-> EmptyRegistry, path |-> ""]

History(reg, p) == [set |-> TRUE, reg |-> reg, path |-> p]

Keys == DOMAIN CppLoadedModules

RegInsertNothing(reg, k, info) == reg

RegInsert(reg, k, info) ==
    [x \in (DOMAIN reg) \cup {k} |-> IF x = k THEN info ELSE reg[x]]

RegEraseNothing(reg, k) == reg

RegEraseAll(reg, k) == [x \in {} |-> reg[x]]

RegErase(reg, k) == [x \in (DOMAIN reg) \ {k} |-> reg[x]]

RECURSIVE InvokedUntilFault(_)
InvokedUntilFault(callbacks_copy) ==
    IF callbacks_copy = <<>> THEN <<>>
    ELSE IF Head(callbacks_copy) = "throws" THEN <<"throws">>
    ELSE <<Head(callbacks_copy)>> \o InvokedUntilFault(Tail(callbacks_copy))

\* The callbacks a broadcast over callbacks_copy invokes when none of them
\* re-enters the loader: all of them, a fault of one is caught and the
\* walk goes on.
Invoked(callbacks_copy) == callbacks_copy

\* broadcastEvent: callbacks_copy = CppEventCallbacks; every callback of the
\* copy is handed (type, info, message).
broadcastEvent(t, type, info, message) ==
    [evts EXCEPT ![t] = Append(@, [type |-> type, info |-> info, msg |-> message,
                                   to |-> Invoked(CppEventCallbacks)])]

\* Some subscribed callback calls subscribeToModuleEvents when invoked.
Reenters == \E i \in DOMAIN CppEventCallbacks : CppEventCallbacks[i] = "subscribes"

\* The environment may raise one more fault.
MayFault == faults < MaxFaults

Crashed == \E t \in Threads : pc[t] = "crashed"

\* The positions outside every section the mutex protects: before a call,
\* waiting for the mutex, and past the end of the run.
Outside == {"idle", "ld_lock", "rl_relock", "rl_unwind", "crashed", "raced", "destroyed"}

InSection(t) == pc[t] \notin Outside

\* Some thread is inside a section of the registry.  A thread that takes the
\* mutex then starts a data race on CppLoadedModules and CppEventCallbacks,
\* from which on nothing about the program is defined.
Unguarded == \E u \in Threads : InSection(u)

Raced == \E t \in Threads : pc[t] = "raced"

TearingDown == \E t \in Threads : op[t] = "teardown"

Running == ~Crashed /\ ~Raced

Quiet(t) == pc[t] = "idle"

Goto(t, l) == pc' = [pc EXCEPT ![t] = l]

\* Where a thread is after broadcastEvent.  Every broadcast runs with
\* CppModuleMutex held by the broadcasting thread, so a callback that calls
\* subscribeToModuleEvents locks a std::mutex its own thread owns, which is
\* undefined: the thread blocks for ever, the process ends, or lock() throws
\* into the callback, where broadcastEvent catches it.
AfterBroadcast(t, next) ==
    IF Reenters
    THEN \E l \in {"deadlocked", "crashed", next} : Goto(t, l)
    ELSE Goto(t, next)

\* The thread's call has seen the faults in S.
Raised(t, S) == thrown' = [thrown EXCEPT ![t] = @ \cup S]

MutexIgnored == TRUE

\* std::mutex: a lock succeeds only while no thread owns the mutex.
MutexFree == CppModuleMutex = 0

\* A registry as loads of the paths in S leave it (the names in S differ).
RegOf(S) ==
    [k \in {LibName(q) : q \in S} |->
        LET q == CHOOSE x \in S : LibName(x) = k
        IN  [name |-> k, version |-> LibVersion(q), path |-> q,
             libraryHandle |-> HandleOf(q), instance |-> HandleOf(q)]]

InitWith(S, h) ==
    /\ CppModuleMutex = 0
    /\ CppLoadedModules = RegOf(S)
    /\ pc = [t \in Threads |-> "idle"]
    /\ op = [t \in Threads |-> "none"]
    /\ modulePath = [t \in Threads |-> ""]
    /\ moduleName = [t \in Threads |-> ""]
    /\ libHandle = [t \in Threads |-> 0]
    /\ moduleInstance = [t \in Threads |-> 0]
    /\ res = [t \in Threads |-> NoResult]
    /\ evts = [t \in Threads |-> <<>>]
    /\ thrown = [t \in Threads |-> {}]
    /\ faults = 0
    /\ openLibs = {HandleOf(q) : q \in S}
    /\ shutInsts = {}
    /\ deadInsts = {}
    /\ leaked = FALSE
    /\ tdNames = <<>>
    /\ regBefore = h
    /\ CppEventCallbacks = <<>>
    /\ listed = [t \in Threads |-> NoList]

\* The constructor leaves the registry empty.
Init == InitWith({}, NoHistory)

----------------------------------------------------------------------------
\* A caller enters a public operation and its lock_guard takes the mutex
\* (std::lock_guard<std::mutex> lock(CppModuleMutex)); a caller that finds
\* the mutex taken has done nothing yet.  h is the history the scenario keeps.

Enter(t, o, l, p, n, h) ==
    /\ Running /\ ~TearingDown
    /\ Quiet(t)
    /\ MutexFree
    /\ CppModuleMutex' = t
    /\ Goto(t, IF Unguarded THEN "raced" ELSE l)
    /\ op' = [op EXCEPT ![t] = o]
    /\ modulePath' = [modulePath EXCEPT ![t] = p]
    /\ moduleName' = [moduleName EXCEPT ![t] = n]
    /\ libHandle' = [libHandle EXCEPT ![t] = 0]
    /\ moduleInstance' = [moduleInstance EXCEPT ![t] = 0]
    /\ res' = [res EXCEPT ![t] = NoResult]
    /\ evts' = [evts EXCEPT ![t] = <<>>]
    /\ thrown' = [thrown EXCEPT ![t] = {}]
    /\ regBefore' = h
    /\ UNCHANGED <<CppLoadedModules, faults, objs, tdNames, subs>>

CallLoad(t, p, h) == Enter(t, "load", "ld_pathcheck", p, "", h)

CallUnload(t, n, h) == Enter(t, "unload", "ul_find", "", n, h)

CallReload(t, n, h) == Enter(t, "reload", "rl_find", "", n, h)

\* ~ModuleLoaderSystem runs when no caller is inside the object.
CallTeardown(t) ==
    /\ \A u \in Threads : Quiet(u)
    /\ Enter(t, "teardown", "td_snap", "", "", regBefore)

\* A thread inside an operation takes the mutex: loadModule's lock_guard when
\* reloadModule calls it, and CppModuleMutex.lock() in reloadModule.
Lock(t, from, to) ==
    /\ Running
    /\ pc[t] = from
    /\ MutexFree
    /\ CppModuleMutex' = t
    /\ Goto(t, IF Unguarded THEN "raced" ELSE to)
    /\ UNCHANGED <<CppLoadedModules, op, locals, res, evts, thrown, faults, objs,
                   tdNames, regBefore, subs>>

----------------------------------------------------------------------------
\* loadModule

LoadLock(t) == Lock(t, "ld_lock", "ld_pathcheck")

PathNeverLoaded(p) == FALSE

PathLoaded(p) == \E k \in Keys : CppLoadedModules[k].path = p

PathEntry(p) ==
    CppLoadedModules[CHOOSE k \in Keys : CppLoadedModules[k].path = p]

LoadPathCheck(t) ==
    /\ Running
    /\ pc[t] = "ld_pathcheck"
    /\ IF PathLoaded(modulePath[t])
       THEN /\ res' = [res EXCEPT ![t] =
                    ModuleResult("Error", "AlreadyLoaded", TRUE, PathEntry(modulePath[t]))]
            /\ Goto(t, "ld_ret")
       ELSE /\ Goto(t, "ld_open")
            /\ UNCHANGED res
    /\ UNCHANGED <<CppModuleMutex, CppLoadedModules, op, locals, evts, thrown, faults,
                   objs, tdNames, regBefore, subs>>

LoadErrorUnannounced(t, message, info) ==
    /\ evts' = evts
    /\ res' = [res EXCEPT ![t] = ModuleResult("Error", message, TRUE, info)]
    /\ Goto(t, "ld_ret")

\* An error return of loadModule: the event, then the result.
LoadError(t, message, info) ==
    /\ evts' = broadcastEvent(t, "ErrorLoading", info, message)
    /\ res' = [res EXCEPT ![t] = ModuleResult("Error", message, TRUE, info)]
    /\ AfterBroadcast(t, "ld_ret")

LoadOpen(t) ==
    /\ Running
    /\ pc[t] = "ld_open"
    /\ IF LibExists(modulePath[t])
       THEN /\ libHandle' = [libHandle EXCEPT ![t] = HandleOf(modulePath[t])]
            /\ openLibs' = openLibs \cup {HandleOf(modulePath[t])}
            /\ Goto(t, "ld_sym")
            /\ UNCHANGED <<res, evts>>
       ELSE /\ LoadError(t, "LoadFailure", PathInfo(modulePath[t]))
            /\ UNCHANGED <<libHandle, openLibs>>
    /\ UNCHANGED <<CppModuleMutex, CppLoadedModules, op, modulePath, moduleName,
                   moduleInstance, thrown, faults, shutInsts, deadInsts, leaked,
                   tdNames, regBefore, subs>>

\* dlclose(h): the OS closes the library (ok) or declines to.
Closes(h, ok) == IF ok THEN openLibs \ {h} ELSE openLibs

\* The outcomes of a dlclose: it fails only while the environment may fault.
CloseOutcomes == IF MayFault THEN {TRUE, FALSE} ELSE {TRUE}

Faulted(ok) == IF ok THEN faults ELSE faults + 1

CloseFault(ok) == IF ok THEN {} ELSE {"close"}

LoadSym(t) ==
    /\ Running
    /\ pc[t] = "ld_sym"
    /\ IF LibHasCreate(modulePath[t])
       THEN /\ Goto(t, "ld_create")
            /\ UNCHANGED <<res, evts, openLibs, faults, thrown>>
       ELSE \E ok \in CloseOutcomes :
            /\ openLibs' = Closes(libHandle[t], ok)
            /\ faults' = Faulted(ok)
            /\ Raised(t, CloseFault(ok))
            /\ LoadError(t, "SymbolNotFound", PathInfo(modulePath[t]))
    /\ UNCHANGED <<CppModuleMutex, CppLoadedModules, op, locals, shutInsts,
                   deadInsts, leaked, tdNames, regBefore, subs>>

\* createFunc(): an instance, a fault, or nullptr; after either failure the
\* library is closed.
LoadCreate(t) ==
    /\ Running
    /\ pc[t] = "ld_create"
    /\ \/ /\ moduleInstance' = [moduleInstance EXCEPT ![t] = libHandle[t]]
          /\ Goto(t, "ld_init")
          /\ UNCHANGED <<res, evts, openLibs, faults, thrown>>
       \/ /\ MayFault
          /\ \E how \in {"FactoryThrew", "FactoryNull"},
                ok \in (IF faults + 1 < MaxFaults THEN {TRUE, FALSE} ELSE {TRUE}) :
             /\ openLibs' = Closes(libHandle[t], ok)
             /\ faults' = Faulted(ok) + 1
             /\ Raised(t, {"factory"} \cup CloseFault(ok))
             /\ LoadError(t, how, PathInfo(modulePath[t]))
             /\ UNCHANGED moduleInstance
    /\ UNCHANGED <<CppModuleMutex, CppLoadedModules, op, modulePath, moduleName,
                   libHandle, shutInsts, deadInsts, leaked, tdNames, regBefore, subs>>

\* moduleInstance->initialize(CppCoreAccess)
LoadInit(t) ==
    /\ Running
    /\ pc[t] = "ld_init"
    /\ \/ /\ Goto(t, "ld_name")
          /\ UNCHANGED <<faults, thrown>>
       \/ /\ MayFault
          /\ faults' = faults + 1
          /\ Raised(t, {"initialize"})
          /\ Goto(t, "ld_initfail")
    /\ UNCHANGED <<CppModuleMutex, CppLoadedModules, op, locals, res, evts,
                   objs, tdNames, regBefore, subs>>

UnwindCloseOnly(t, ok) ==
    /\ deadInsts' = deadInsts
    /\ openLibs' = Closes(libHandle[t], ok)
    /\ faults' = Faulted(ok)
    /\ Raised(t, CloseFault(ok))

UnwindAlwaysDestroys(t, ok) ==
    /\ deadInsts' = deadInsts \cup {moduleInstance[t]}
    /\ openLibs' = Closes(libHandle[t], ok)
    /\ faults' = Faulted(ok)
    /\ Raised(t, CloseFault(ok))

\* destroyFunc(moduleInstance) when destroyFunc was resolved (a fault it
\* raises is swallowed and shows nowhere), then dlclose(libHandle).
Unwind(t, ok) ==
    /\ deadInsts' = IF LibHasDestroy(modulePath[t])
                    THEN deadInsts \cup {moduleInstance[t]} ELSE deadInsts
    /\ openLibs' = Closes(libHandle[t], ok)
    /\ faults' = Faulted(ok)
    /\ Raised(t, CloseFault(ok))

\* The catch blocks of initialize(): destroyFunc, dlclose.
LoadInitFail(t) ==
    /\ Running
    /\ pc[t] = "ld_initfail"
    /\ \E ok \in CloseOutcomes : Unwind(t, ok)
    /\ Goto(t, "ld_initfail_name")
    /\ UNCHANGED <<CppModuleMutex, CppLoadedModules, op, locals, res, evts,
                   shutInsts, leaked, tdNames, regBefore, subs>>

\* The instance's object or code is gone: a call through it is undefined.
Dangling(i) == i # 0 /\ (i \in deadInsts \/ i \notin openLibs)

\* A call of module code outside every try block throws: the exception
\* leaves loadModule, whose lock_guard releases the mutex on the way out;
\* nothing more is destroyed or closed and no event is broadcast.
LoadThrows(t, what) ==
    /\ MayFault
    /\ faults' = faults + 1
    /\ Raised(t, {what})
    /\ res' = [res EXCEPT ![t] = Escaped(what)]
    /\ Goto(t, "ld_ret")

\* The catch blocks go on to call moduleInstance->getName() for the message.
\* On a dangling instance the call returns the name, returns anything, or
\* brings the process down.
LoadInitFailName(t) ==
    /\ Running
    /\ pc[t] = "ld_initfail_name"
    /\ \/ /\ LoadError(t, "InitFailed",
                [PathInfo(modulePath[t]) EXCEPT !.name = LibName(modulePath[t])])
          /\ UNCHANGED <<thrown, faults>>
       \/ /\ Dangling(moduleInstance[t])
          /\ LoadError(t, "InitFailed",
                [PathInfo(modulePath[t]) EXCEPT !.name = "garbage"])
          /\ UNCHANGED <<thrown, faults>>
       \/ /\ Dangling(moduleInstance[t])
          /\ Goto(t, "crashed")
          /\ UNCHANGED <<res, evts, thrown, faults>>
       \/ /\ LoadThrows(t, "getName")
          /\ UNCHANGED evts
    /\ UNCHANGED <<CppModuleMutex, CppLoadedModules, op, locals, objs,
                   tdNames, regBefore, subs>>

\* CppLoadedModules.count(moduleName)
NameLoaded(n) == n \in Keys

\* moduleName = moduleInstance->getName() and the check of the name.
LoadName(t) ==
    /\ Running
    /\ pc[t] = "ld_name"
    /\ \/ IF NameLoaded(LibName(modulePath[t]))
          THEN \E ok \in CloseOutcomes :
               /\ Unwind(t, ok)
               /\ LoadError(t, "DuplicateName",
                     [PathInfo(modulePath[t]) EXCEPT !.name = LibName(modulePath[t])])
          ELSE /\ Goto(t, "ld_insert")
               /\ UNCHANGED <<res, evts, openLibs, deadInsts, faults, thrown>>
       \/ /\ LoadThrows(t, "getName")
          /\ UNCHANGED <<evts, openLibs, deadInsts>>
    /\ UNCHANGED <<CppModuleMutex, CppLoadedModules, op, locals, shutInsts,
                   leaked, tdNames, regBefore, subs>>

LoadedInfoWithoutVersion(t) ==
    [name |-> LibName(modulePath[t]), version |-> "",
     path |-> modulePath[t], libraryHandle |-> libHandle[t],
     instance |-> moduleInstance[t]]

LoadedInfoWithoutInstance(t) ==
    [name |-> LibName(modulePath[t]), version |-> LibVersion(modulePath[t]),
     path |-> modulePath[t], libraryHandle |-> libHandle[t], instance |-> 0]

\* The ModuleInfo loadModule builds; its name is moduleInstance->getName().
LoadedInfo(t) ==
    [name |-> LibName(modulePath[t]), version |-> LibVersion(modulePath[t]),
     path |-> modulePath[t], libraryHandle |-> libHandle[t],
     instance |-> moduleInstance[t]]

InsertKeyByPath(t) == modulePath[t]

\* The key of CppLoadedModules[info.name] = info
InsertKey(t) == LoadedInfo(t).name

\* info.version = moduleInstance->getVersion(), then the insert.
LoadInsert(t) ==
    /\ Running
    /\ pc[t] = "ld_insert"
    /\ \/ /\ CppLoadedModules' = RegInsert(CppLoadedModules, InsertKey(t), LoadedInfo(t))
          /\ Goto(t, "ld_loaded")
          /\ UNCHANGED <<res, thrown, faults>>
       \/ /\ LoadThrows(t, "getVersion")
          /\ UNCHANGED CppLoadedModules
    /\ UNCHANGED <<CppModuleMutex, op, locals, evts, objs, tdNames, regBefore, subs>>

LoadLoaded(t) ==
    /\ Running
    /\ pc[t] = "ld_loaded"
    /\ evts' = broadcastEvent(t, "Loaded", LoadedInfo(t), "Loaded")
    /\ res' = [res EXCEPT ![t] = ModuleResult("Success", "Loaded", TRUE, LoadedInfo(t))]
    /\ AfterBroadcast(t, "ld_ret")
    /\ UNCHANGED <<CppModuleMutex, CppLoadedModules, op, locals, thrown, faults, objs,
                   tdNames, regBefore, subs>>

\* A handle the returning loadModule still holds open and has not stored.
Dropped(t) ==
    /\ libHandle[t] \in openLibs
    /\ \A k \in Keys : CppLoadedModules[k].libraryHandle # libHandle[t]

\* loadModule returns: the lock_guard releases the mutex; its locals die.
\* kept is what the caller keeps of the result.
LoadReturn(t, kept) ==
    /\ Running
    /\ pc[t] = "ld_ret"
    /\ CppModuleMutex' = 0
    /\ leaked' = (leaked \/ Dropped(t))
    /\ openLibs' = IF Dropped(t) THEN openLibs \ {libHandle[t]} ELSE openLibs
    /\ shutInsts' = IF res[t].status = "Success" THEN shutInsts
                    ELSE shutInsts \ {libHandle[t]}
    /\ deadInsts' = IF res[t].status = "Success" THEN deadInsts
                    ELSE deadInsts \ {libHandle[t]}
    /\ libHandle' = [libHandle EXCEPT ![t] = 0]
    /\ moduleInstance' = [moduleInstance EXCEPT ![t] = 0]
    /\ IF op[t] = "reload"
       THEN /\ Goto(t, IF res[t].status = "Exception" THEN "rl_unwind" ELSE "rl_relock")
            /\ UNCHANGED <<op, modulePath, res, evts, thrown>>
       ELSE /\ Goto(t, "idle")
            /\ res' = [res EXCEPT ![t] = kept]
            /\ op' = [op EXCEPT ![t] = "none"]
            /\ modulePath' = [modulePath EXCEPT ![t] = ""]
            /\ evts' = [evts EXCEPT ![t] = <<>>]
            /\ thrown' = [thrown EXCEPT ![t] = {}]
    /\ UNCHANGED <<CppLoadedModules, moduleName, faults, tdNames, regBefore, subs>>

----------------------------------------------------------------------------
\* internalUnloadModule(moduleName, isReloading)

NeverReloading(t) == FALSE

isReloading(t) == op[t] \in {"reload", "teardown"}

infoToUnloadUnnamed(t) ==
    [name |-> "", version |-> LibVersion(modulePath[t]),
     path |-> modulePath[t], libraryHandle |-> libHandle[t],
     instance |-> moduleInstance[t]]

\* infoToUnload, the copy internalUnloadModule works on.
infoToUnload(t) ==
    [name |-> moduleName[t], version |-> LibVersion(modulePath[t]),
     path |-> modulePath[t], libraryHandle |-> libHandle[t],
     instance |-> moduleInstance[t]]

NotFoundAsSuccess == ModuleResult("Success", "NotFound", FALSE, DefaultInfo)

\* ModuleResult(Status::NotFound, "Module not found: " + moduleName)
NotFoundResult == ModuleResult("NotFound", "NotFound", FALSE, DefaultInfo)

DestroyFirst == "ul_destroy"

\* What internalUnloadModule does first with the module it found: the try
\* block of infoToUnload.instance->shutdown().
AfterFind == "ul_shutdown"

\* auto it = CppLoadedModules.find(moduleName); infoToUnload = it->second
UnloadFind(t) ==
    /\ Running
    /\ pc[t] = "ul_find"
    /\ thrown' = [thrown EXCEPT ![t] = {}]
    /\ IF moduleName[t] \in Keys
       THEN /\ modulePath' = [modulePath EXCEPT ![t] = CppLoadedModules[moduleName[t]].path]
            /\ libHandle' = [libHandle EXCEPT ![t] =
                                CppLoadedModules[moduleName[t]].libraryHandle]
            /\ moduleInstance' = [moduleInstance EXCEPT ![t] =
                                CppLoadedModules[moduleName[t]].instance]
            /\ Goto(t, AfterFind)
            /\ UNCHANGED <<res, evts>>
       ELSE /\ evts' = IF isReloading(t) THEN evts
                       ELSE broadcastEvent(t, "ErrorUnloading", NameInfo(moduleName[t]),
                                           "NotFound")
            /\ res' = [res EXCEPT ![t] = NotFoundResult]
            /\ IF isReloading(t) THEN Goto(t, "ul_ret") ELSE AfterBroadcast(t, "ul_ret")
            /\ UNCHANGED <<modulePath, libHandle, moduleInstance>>
    /\ UNCHANGED <<CppModuleMutex, CppLoadedModules, op, moduleName, faults, objs,
                   tdNames, regBefore, subs>>

ShutdownFaultAborts == "ul_ret"

\* Where internalUnloadModule goes on after the catch blocks of shutdown().
AfterShutdownFault == "ul_destroy"

\* infoToUnload.instance->shutdown(); a fault is caught and broadcast.  On a
\* dangling instance the call may also bring the process down.
UnloadShutdown(t) ==
    /\ Running
    /\ pc[t] = "ul_shutdown"
    /\ shutInsts' = shutInsts \cup {moduleInstance[t]}
    /\ \/ /\ Goto(t, "ul_destroy")
          /\ UNCHANGED <<evts, thrown, faults>>
       \/ /\ MayFault
          /\ faults' = faults + 1
          /\ Raised(t, {"shutdown"})
          /\ evts' = broadcastEvent(t, "ErrorUnloading", infoToUnload(t), "ShutdownFault")
          /\ AfterBroadcast(t, AfterShutdownFault)
       \/ /\ Dangling(moduleInstance[t])
          /\ Goto(t, "crashed")
          /\ UNCHANGED <<evts, thrown, faults>>
    /\ UNCHANGED <<CppModuleMutex, CppLoadedModules, op, locals, res, openLibs,
                   deadInsts, leaked, tdNames, regBefore, subs>>

\* destroyFunc is resolved again from the library and, when present, called
\* on the instance; then infoToUnload.instance = nullptr.
UnloadDestroy(t) ==
    /\ Running
    /\ pc[t] = "ul_destroy"
    /\ IF LibHasDestroy(modulePath[t])
       THEN /\ deadInsts' = deadInsts \cup {moduleInstance[t]}
            /\ \/ /\ Goto(t, "ul_close")
                  /\ UNCHANGED <<evts, thrown, faults>>
               \/ /\ MayFault
                  /\ faults' = faults + 1
                  /\ Raised(t, {"destroy"})
                  /\ evts' = broadcastEvent(t, "ErrorUnloading", infoToUnload(t),
                                            "DestructorFault")
                  /\ AfterBroadcast(t, "ul_close")
               \/ /\ Dangling(moduleInstance[t])
                  /\ Goto(t, "crashed")
                  /\ UNCHANGED <<evts, thrown, faults>>
       ELSE /\ Goto(t, "ul_close")
            /\ UNCHANGED <<deadInsts, evts, thrown, faults>>
    /\ moduleInstance' = [moduleInstance EXCEPT ![t] = 0]
    /\ UNCHANGED <<CppModuleMutex, CppLoadedModules, op, modulePath, moduleName,
                   libHandle, res, openLibs, shutInsts, leaked, tdNames, regBefore, subs>>

CloseFailedAsSuccess(t) ==
    /\ evts' = broadcastEvent(t, "ErrorUnloading", infoToUnload(t), "UnloadFailure")
    /\ res' = [res EXCEPT ![t] =
                  ModuleResult("Success", "UnloadFailure", TRUE, infoToUnload(t))]
    /\ AfterBroadcast(t, "ul_ret")

\* What internalUnloadModule does when dlclose has failed.
CloseFailed(t) ==
    /\ evts' = broadcastEvent(t, "ErrorUnloading", infoToUnload(t), "UnloadFailure")
    /\ res' = [res EXCEPT ![t] =
                  ModuleResult("Error", "UnloadFailure", TRUE, infoToUnload(t))]
    /\ AfterBroadcast(t, "ul_ret")

\* dlclose(infoToUnload.libraryHandle)
UnloadClose(t) ==
    /\ Running
    /\ pc[t] = "ul_close"
    /\ \E ok \in CloseOutcomes :
          /\ openLibs' = Closes(libHandle[t], ok)
          /\ faults' = Faulted(ok)
          /\ Raised(t, CloseFault(ok))
          /\ IF ok
             THEN /\ Goto(t, "ul_erase")
                  /\ UNCHANGED <<res, evts>>
             ELSE CloseFailed(t)
    /\ UNCHANGED <<CppModuleMutex, CppLoadedModules, op, locals, shutInsts,
                   deadInsts, leaked, tdNames, regBefore, subs>>

\* infoToUnload.libraryHandle = nullptr; CppLoadedModules.erase(moduleName)
UnloadErase(t) ==
    /\ Running
    /\ pc[t] = "ul_erase"
    /\ CppLoadedModules' = RegErase(CppLoadedModules, moduleName[t])
    /\ shutInsts' = shutInsts \ {libHandle[t]}
    /\ deadInsts' = deadInsts \ {libHandle[t]}
    /\ libHandle' = [libHandle EXCEPT ![t] = 0]
    /\ Goto(t, "ul_unloaded")
    /\ UNCHANGED <<CppModuleMutex, op, modulePath, moduleName, moduleInstance, res,
                   evts, thrown, faults, openLibs, leaked, tdNames, regBefore, subs>>

\* The Unloaded event, unless isReloading, and the Success result.
UnloadUnloaded(t) ==
    /\ Running
    /\ pc[t] = "ul_unloaded"
    /\ evts' = IF isReloading(t) THEN evts
               ELSE broadcastEvent(t, "Unloaded", infoToUnload(t), "Unloaded")
    /\ res' = [res EXCEPT ![t] = ModuleResult("Success", "Unloaded", TRUE, infoToUnload(t))]
    /\ IF isReloading(t) THEN Goto(t, "ul_ret") ELSE AfterBroadcast(t, "ul_ret")
    /\ UNCHANGED <<CppModuleMutex, CppLoadedModules, op, locals, thrown, faults, objs,
                   tdNames, regBefore, subs>>

\* A public operation returns to its caller: the lock_guard releases the
\* mutex and the locals die.  kept is what the caller keeps of the result.
Return(t, from, kept) ==
    /\ Running
    /\ pc[t] = from
    /\ CppModuleMutex' = 0
    /\ Goto(t, "idle")
    /\ res' = [res EXCEPT ![t] = kept]
    /\ op' = [op EXCEPT ![t] = "none"]
    /\ modulePath' = [modulePath EXCEPT ![t] = ""]
    /\ moduleName' = [moduleName EXCEPT ![t] = ""]
    /\ libHandle' = [libHandle EXCEPT ![t] = 0]
    /\ moduleInstance' = [moduleInstance EXCEPT ![t] = 0]
    /\ evts' = [evts EXCEPT ![t] = <<>>]
    /\ thrown' = [thrown EXCEPT ![t] = {}]
    /\ UNCHANGED <<CppLoadedModules, faults, objs, tdNames, regBefore, subs>>

\* unloadModule: return internalUnloadModule(moduleName, false)
UnloadReturn(t, kept) ==
    /\ op[t] = "unload"
    /\ Return(t, "ul_ret", kept)

----------------------------------------------------------------------------
\* reloadModule

ReloadNotFoundAsError(t) ==
    ModuleResult("Error", "ReloadNotFound", TRUE, NameInfo(moduleName[t]))

\* ModuleResult(NotFound, "Module not found for reload: " + moduleName, errorInfo)
ReloadNotFoundResult(t) ==
    ModuleResult("NotFound", "ReloadNotFound", TRUE, NameInfo(moduleName[t]))

\* auto it = CppLoadedModules.find(moduleName); modulePath = it->second.path
ReloadFind(t) ==
    /\ Running
    /\ pc[t] = "rl_find"
    /\ IF moduleName[t] \in Keys
       THEN /\ modulePath' = [modulePath EXCEPT ![t] = CppLoadedModules[moduleName[t]].path]
            /\ Goto(t, "ul_find")
            /\ UNCHANGED res
       ELSE /\ res' = [res EXCEPT ![t] = ReloadNotFoundResult(t)]
            /\ Goto(t, "rl_ret")
            /\ UNCHANGED modulePath
    /\ UNCHANGED <<CppModuleMutex, CppLoadedModules, op, moduleName, libHandle,
                   moduleInstance, evts, thrown, faults, objs, tdNames, regBefore, subs>>

UnloadNeverFailed(t) == FALSE

\* unloadRes.status != ModuleResult::Status::Success
UnloadFailed(t) == res[t].status # "Success"

\* unloadRes = internalUnloadModule(moduleName, true) has returned.
ReloadAfterUnload(t) ==
    /\ Running
    /\ pc[t] = "ul_ret"
    /\ op[t] = "reload"
    /\ IF UnloadFailed(t)
       THEN LET info == [(IF res[t].has THEN res[t].module ELSE DefaultInfo)
                            EXCEPT !.name = moduleName[t], !.path = modulePath[t]]
            IN  /\ evts' = broadcastEvent(t, "ErrorUnloading", info, "ReloadUnloadFailed")
                /\ res' = [res EXCEPT ![t] =
                              ModuleResult("Error", "ReloadUnloadFailed", TRUE, info)]
                /\ AfterBroadcast(t, "rl_ret")
       ELSE /\ Goto(t, "rl_unlock")
            /\ UNCHANGED <<res, evts>>
    /\ UNCHANGED <<CppModuleMutex, CppLoadedModules, op, locals, thrown, faults, objs,
                   tdNames, regBefore, subs>>

KeptBy(t) == t

\* The owner of the mutex after thread t's CppModuleMutex.unlock(): none.
Released(t) == 0

\* CppModuleMutex.unlock(); loadModule(modulePath) is entered next.
ReloadUnlock(t) ==
    /\ Running
    /\ pc[t] = "rl_unlock"
    /\ CppModuleMutex' = Released(t)
    /\ Goto(t, "ld_lock")
    /\ UNCHANGED <<CppLoadedModules, op, locals, res, evts, thrown, faults, objs,
                   tdNames, regBefore, subs>>

\* CppModuleMutex.lock() after loadModule returned loadRes.
ReloadRelock(t) == Lock(t, "rl_relock", "rl_finish")

\* The Reloaded event and Success, or ErrorLoading and Error.
ReloadFinish(t) ==
    /\ Running
    /\ pc[t] = "rl_finish"
    /\ IF res[t].status = "Success"
       THEN /\ evts' = broadcastEvent(t, "Reloaded", res[t].module, "Reloaded")
            /\ res' = [res EXCEPT ![t] =
                          ModuleResult("Success", "Reloaded", TRUE, res[t].module)]
       ELSE LET info == [DefaultInfo EXCEPT !.name = moduleName[t],
                                            !.path = modulePath[t]]
            IN  /\ evts' = broadcastEvent(t, "ErrorLoading", info, "ReloadLoadFailed")
                /\ res' = [res EXCEPT ![t] =
                              ModuleResult("Error", "ReloadLoadFailed", TRUE, info)]
    /\ AfterBroadcast(t, "rl_ret")
    /\ UNCHANGED <<CppModuleMutex, CppLoadedModules, op, locals, thrown, faults, objs,
                   tdNames, regBefore, subs>>

ReloadReturn(t, kept) == Return(t, "rl_ret", kept)

\* An exception of loadModule passes through reloadModule after its manual
\* unlock(): the lock_guard's destructor unlocks a mutex the thread does not
\* own, which is undefined.  The mutex is left free, whoever holds it, and
\* the exception reaches the caller; or the process ends.
ReloadUnwind(t, kept) ==
    \/ Return(t, "rl_unwind", kept)
    \/ /\ Running
       /\ pc[t] = "rl_unwind"
       /\ Goto(t, "crashed")
       /\ UNCHANGED <<CppModuleMutex, CppLoadedModules, op, locals, res, evts, thrown,
                      faults, objs, tdNames, regBefore, subs>>

----------------------------------------------------------------------------
\* listModules and subscribeToModuleEvents: lock_guard, the body, return.

\* The vector listModules builds: the descriptors in the map's order.
ModuleListOfNothing == <<>>

ModuleList ==
    LET names == SelectSeq(KeyOrder, LAMBDA k : k \in Keys)
    IN  [i \in DOMAIN names |-> CppLoadedModules[names[i]]]

ListModules(t, kept) ==
    /\ Running /\ ~TearingDown
    /\ Quiet(t)
    /\ MutexFree
    /\ IF Unguarded
       THEN Goto(t, "raced") /\ UNCHANGED listed
       ELSE listed' = [listed EXCEPT ![t] = kept] /\ UNCHANGED pc
    /\ UNCHANGED <<CppModuleMutex, CppLoadedModules, op, locals, res, evts, thrown,
                   faults, objs, tdNames, regBefore, CppEventCallbacks>>

\* CppEventCallbacks.push_back(callback)
Subscribe(t, callback) ==
    /\ Running /\ ~TearingDown
    /\ Quiet(t)
    /\ MutexFree
    /\ Len(CppEventCallbacks) < MaxCallbacks
    /\ IF Unguarded
       THEN Goto(t, "raced") /\ UNCHANGED CppEventCallbacks
       ELSE CppEventCallbacks' = Append(CppEventCallbacks, callback) /\ UNCHANGED pc
    /\ UNCHANGED <<CppModuleMutex, CppLoadedModules, op, locals, res, evts, thrown,
                   faults, objs, tdNames, regBefore, listed>>

----------------------------------------------------------------------------
\* ~ModuleLoaderSystem

moduleNamesOfNothing == <<>>

\* moduleNames: the keys of CppLoadedModules, in the map's order.
moduleNames == SelectSeq(KeyOrder, LAMBDA k : k \in Keys)

\* for (pair : CppLoadedModules) moduleNames.push_back(pair.first)
TeardownSnap(t) ==
    /\ Running
    /\ pc[t] = "td_snap"
    /\ tdNames' = moduleNames
    /\ Goto(t, "td_loop")
    /\ UNCHANGED <<CppModuleMutex, CppLoadedModules, op, locals, res, evts, thrown,
                   faults, objs, regBefore, subs>>

\* for (name : moduleNames) internalUnloadModule(name, true)
TeardownNext(t) ==
    /\ Running
    /\ \/ pc[t] = "td_loop"
       \/ pc[t] = "ul_ret" /\ op[t] = "teardown"
    /\ IF tdNames = <<>>
       THEN /\ Goto(t, "td_clear")
            /\ UNCHANGED <<moduleName, tdNames>>
       ELSE /\ moduleName' = [moduleName EXCEPT ![t] = Head(tdNames)]
            /\ tdNames' = Tail(tdNames)
            /\ Goto(t, "ul_find")
    /\ UNCHANGED <<CppModuleMutex, CppLoadedModules, op, modulePath, libHandle,
                   moduleInstance, res, evts, thrown, faults, objs, regBefore, subs>>

\* CppLoadedModules.clear(); the lock_guard releases the mutex.
TeardownClear(t) ==
    /\ Running
    /\ pc[t] = "td_clear"
    /\ CppLoadedModules' = EmptyRegistry
    /\ leaked' = (leaked \/ \E k \in Keys : CppLoadedModules[k].libraryHandle \in openLibs)
    /\ CppModuleMutex' = 0
    /\ Goto(t, "destroyed")
    /\ UNCHANGED <<op, locals, res, evts, thrown, faults, openLibs, shutInsts,
                   deadInsts, tdNames, regBefore, subs>>

----------------------------------------------------------------------------
\* Any number of threads call the loader in any order.
Next ==
    \E t \in Threads :
        \/ \E p \in Paths : CallLoad(t, p, regBefore)
        \/ \E n \in Names : CallUnload(t, n, regBefore)
        \/ \E n \in Names : CallReload(t, n, regBefore)
        \/ CallTeardown(t)
        \/ LoadLock(t) \/ LoadPathCheck(t) \/ LoadOpen(t) \/ LoadSym(t)
        \/ LoadCreate(t) \/ LoadInit(t) \/ LoadInitFail(t) \/ LoadInitFailName(t)
        \/ LoadName(t) \/ LoadInsert(t) \/ LoadLoaded(t) \/ LoadReturn(t, NoResult)
        \/ UnloadFind(t) \/ UnloadShutdown(t) \/ UnloadDestroy(t)
        \/ UnloadClose(t) \/ UnloadErase(t) \/ UnloadUnloaded(t)
        \/ UnloadReturn(t, NoResult)
        \/ ReloadFind(t) \/ ReloadAfterUnload(t) \/ ReloadUnlock(t)
        \/ ReloadRelock(t) \/ ReloadFinish(t) \/ ReloadReturn(t, NoResult)
        \/ ReloadUnwind(t, NoResult)
        \/ TeardownSnap(t) \/ TeardownNext(t) \/ TeardownClear(t)

Spec == Init /\ [][Next]_vars

----------------------------------------------------------------------------
\* One caller alone, one call after the other.  The caller keeps the result
\* of a load; an unload of the name a successful load just returned keeps
\* the history of that load; a reload of a registered name starts a history.

Caller == CHOOSE t \in Threads : \A u \in Threads : t <= u

AfterLoadOf(n) ==
    /\ regBefore.set
    /\ res[Caller].status = "Success"
    /\ res[Caller].module.name = n

NextSeq ==
    \/ \E p \in Paths : CallLoad(Caller, p, History(CppLoadedModules, p))
    \/ \E n \in Names :
          CallUnload(Caller, n, IF AfterLoadOf(n) THEN regBefore ELSE NoHistory)
    \/ \E n \in Names :
          CallReload(Caller, n, IF n \in Keys
                                THEN History(CppLoadedModules, CppLoadedModules[n].path)
                                ELSE NoHistory)
    \/ LoadLock(Caller) \/ LoadPathCheck(Caller) \/ LoadOpen(Caller)
    \/ LoadSym(Caller) \/ LoadCreate(Caller) \/ LoadInit(Caller)
    \/ LoadInitFail(Caller) \/ LoadInitFailName(Caller) \/ LoadName(Caller)
    \/ LoadInsert(Caller) \/ LoadLoaded(Caller) \/ LoadReturn(Caller, res[Caller])
    \/ UnloadFind(Caller) \/ UnloadShutdown(Caller) \/ UnloadDestroy(Caller)
    \/ UnloadClose(Caller) \/ UnloadErase(Caller) \/ UnloadUnloaded(Caller)
    \/ UnloadReturn(Caller, NoResult)
    \/ ReloadFind(Caller) \/ ReloadAfterUnload(Caller) \/ ReloadUnlock(Caller)
    \/ ReloadRelock(Caller) \/ ReloadFinish(Caller) \/ ReloadReturn(Caller, NoResult)
    \/ ReloadUnwind(Caller, NoResult)

SpecSeq == Init /\ [][NextSeq]_vars

----------------------------------------------------------------------------
\* Every thread calls loadModule once, all with the same path, from a
\* registry that earlier loads have filled.

\* The sets of paths whose modules can be loaded together.
Loadable ==
    {S \in SUBSET {"pa", "pb", "pc"} : \A q1, q2 \in S : LibName(q1) = LibName(q2) => q1 = q2}

InitSame ==
    \E S \in Loadable, p \in Paths : InitWith(S, History(RegOf(S), p))

HasCalled(t) == res[t] # NoResult

NextSame ==
    \E t \in Threads :
        \/ ~HasCalled(t) /\ CallLoad(t, regBefore.path, regBefore)
        \/ LoadPathCheck(t) \/ LoadOpen(t) \/ LoadSym(t)
        \/ LoadCreate(t) \/ LoadInit(t) \/ LoadInitFail(t) \/ LoadInitFailName(t)
        \/ LoadName(t) \/ LoadInsert(t) \/ LoadLoaded(t) \/ LoadReturn(t, res[t])

SpecSame == InitSame /\ [][NextSame]_vars

----------------------------------------------------------------------------
\* One thread reloads a registered module once while every other thread
\* lists the modules and loads a path once; all keep what they get back.

InitGap == \E S \in Loadable \ {{}} : InitWith(S, NoHistory)

Others == Threads \ {Caller}

NextGap ==
    \/ ~HasCalled(Caller) /\ \E n \in Names : CallReload(Caller, n, regBefore)
    \/ \E t \in Others :
          \/ ListModules(t, ModuleList)
          \/ ~HasCalled(t) /\ \E p \in Paths : CallLoad(t, p, regBefore)
    \/ \E t \in Threads :
          \/ LoadLock(t) \/ LoadPathCheck(t) \/ LoadOpen(t) \/ LoadSym(t)
          \/ LoadCreate(t) \/ LoadInit(t) \/ LoadInitFail(t) \/ LoadInitFailName(t)
          \/ LoadName(t) \/ LoadInsert(t) \/ LoadLoaded(t) \/ LoadReturn(t, res[t])
          \/ UnloadFind(t) \/ UnloadShutdown(t) \/ UnloadDestroy(t)
          \/ UnloadClose(t) \/ UnloadErase(t) \/ UnloadUnloaded(t)
          \/ ReloadFind(t) \/ ReloadAfterUnload(t) \/ ReloadUnlock(t)
          \/ ReloadRelock(t) \/ ReloadFinish(t) \/ ReloadReturn(t, res[t])
          \/ ReloadUnwind(t, res[t])

SpecGap == InitGap /\ [][NextGap]_vars

----------------------------------------------------------------------------
\* One caller subscribes callbacks, of every kind and in every order, and
\* calls the loader, one call after the other.

NextCb ==
    \/ \E callback \in Callbacks : Subscribe(Caller, callback)
    \/ \E p \in Paths : CallLoad(Caller, p, History(CppLoadedModules, p))
    \/ \E n \in Names : CallUnload(Caller, n, History(CppLoadedModules, ""))
    \/ \E n \in Names : CallReload(Caller, n, History(CppLoadedModules, ""))
    \/ LoadLock(Caller) \/ LoadPathCheck(Caller) \/ LoadOpen(Caller)
    \/ LoadSym(Caller) \/ LoadCreate(Caller) \/ LoadInit(Caller)
    \/ LoadInitFail(Caller) \/ LoadInitFailName(Caller) \/ LoadName(Caller)
    \/ LoadInsert(Caller) \/ LoadLoaded(Caller) \/ LoadReturn(Caller, NoResult)
    \/ UnloadFind(Caller) \/ UnloadShutdown(Caller) \/ UnloadDestroy(Caller)
    \/ UnloadClose(Caller) \/ UnloadErase(Caller) \/ UnloadUnloaded(Caller)
    \/ UnloadReturn(Caller, NoResult)
    \/ ReloadFind(Caller) \/ ReloadAfterUnload(Caller) \/ ReloadUnlock(Caller)
    \/ ReloadRelock(Caller) \/ ReloadFinish(Caller) \/ ReloadReturn(Caller, NoResult)
    \/ ReloadUnwind(Caller, NoResult)

SpecCb == Init /\ [][NextCb]_vars

----------------------------------------------------------------------------
\* Every thread calls loadModule once, all with the same path, on a loader
\* just constructed, and a thread whose load returned Success then calls
\* unloadModule with the name it was given.

InitThreads ==
    \E p \in {"pa", "pb", "pc"} : InitWith({}, History(EmptyRegistry, p))

\* lRes.status == Success, before the thread's unloadModule
LoadedOwn(t) == Quiet(t) /\ res[t].status = "Success" /\ res[t].msg = "Loaded"

NextThreads ==
    \E t \in Threads :
        \/ ~HasCalled(t) /\ CallLoad(t, regBefore.path, regBefore)
        \/ LoadedOwn(t) /\ CallUnload(t, res[t].module.name, regBefore)
        \/ LoadPathCheck(t) \/ LoadOpen(t) \/ LoadSym(t)
        \/ LoadCreate(t) \/ LoadInit(t) \/ LoadInitFail(t) \/ LoadInitFailName(t)
        \/ LoadName(t) \/ LoadInsert(t) \/ LoadLoaded(t) \/ LoadReturn(t, res[t])
        \/ UnloadFind(t) \/ UnloadShutdown(t) \/ UnloadDestroy(t)
        \/ UnloadClose(t) \/ UnloadErase(t) \/ UnloadUnloaded(t)
        \/ UnloadReturn(t, res[t])

SpecThreads == InitThreads /\ [][NextThreads]_vars

----------------------------------------------------------------------------
\* Properties

\* The types of the events of thread t's current call, in order.
EventTypes(t) == [i \in DOMAIN evts[t] |-> evts[t][i].type]

\* How many events of the type and message thread t's call emitted for module n.
EventCount(t, type, message, n) ==
    Cardinality({i \in DOMAIN evts[t] :
                    /\ evts[t][i].type = type
                    /\ evts[t][i].msg = message
                    /\ evts[t][i].info.name = n})

HasEvent(t, type) == \E i \in DOMAIN evts[t] : evts[t][i].type = type

DescriptorsOf(p) == {k \in Keys : CppLoadedModules[k].path = p}

Named(n) == {k \in Keys : CppLoadedModules[k].name = n}

\* C1: in every reachable state, whatever the interleaving of load, unload and
\* reload calls of the threads, no two descriptors of the registry have the
\* same name and no two have the same path.
C1_UniqueNameAndPath ==
    \A k1, k2 \in Keys :
        k1 # k2 => /\ CppLoadedModules[k1].name # CppLoadedModules[k2].name
                   /\ CppLoadedModules[k1].path # CppLoadedModules[k2].path

\* Two modules are registered and a load of a third was turned away for its name.
C1_TwoRegisteredOneRejected ==
    /\ Cardinality(Keys) = 2
    /\ \E t \in Threads : pc[t] = "ld_ret" /\ res[t].msg = "DuplicateName"

\* Every thread has made its one call and has its result.
AllDone == \A t \in Threads : Quiet(t) /\ HasCalled(t)

Winners == {t \in Threads : res[t].status = "Success"}

NotLoadedBefore ==
    \A k \in DOMAIN regBefore.reg : regBefore.reg[k].path # regBefore.path

SingleWinner ==
    /\ Cardinality(Winners) = 1
    /\ \A t \in Threads \ Winners :
          /\ res[t].status = "Error"
          /\ res[t].msg \in {"AlreadyLoaded", "DuplicateName"}
    /\ Cardinality(DescriptorsOf(regBefore.path)) = 1

CleanLoad ==
    /\ LibExists(regBefore.path)
    /\ LibHasCreate(regBefore.path)
    /\ LibName(regBefore.path) \notin DOMAIN regBefore.reg
    /\ faults = 0

C3_LoadUnloadRestores ==
    \A t \in Threads :
        (/\ pc[t] = "ul_ret" /\ op[t] = "unload"
         /\ regBefore.set
         /\ "close" \notin thrown[t])
        => CppLoadedModules = regBefore.reg

\* Such an unload is back, from a registry that held another module.
C3_UnloadedAgain ==
    \E t \in Threads :
        /\ pc[t] = "ul_ret" /\ op[t] = "unload"
        /\ regBefore.set /\ regBefore.reg # EmptyRegistry
        /\ "close" \notin thrown[t]
        /\ res[t].status = "Success"

\* C4: a load that returns without success while the registry holds a
\* descriptor of its path (the path was registered when it was called)
\* returns Error with the AlreadyLoaded message, has emitted no event, and
\* the registry holds exactly one descriptor of that path.
C4_AlreadyLoadedIsSilent ==
    \A t \in Threads :
        (/\ pc[t] = "ld_ret" /\ op[t] = "load"
         /\ res[t].status # "Success"
         /\ DescriptorsOf(modulePath[t]) # {})
        => /\ res[t].status = "Error"
           /\ res[t].msg = "AlreadyLoaded"
           /\ evts[t] = <<>>
           /\ Cardinality(DescriptorsOf(modulePath[t])) = 1

\* A load of a registered path is about to return, two modules registered.
C4_SecondLoadReturns ==
    \E t \in Threads :
        /\ pc[t] = "ld_ret" /\ op[t] = "load"
        /\ res[t].status # "Success"
        /\ DescriptorsOf(modulePath[t]) # {}
        /\ Cardinality(Keys) = 2

\* C5: no step of an unload whose name is not in the registry changes the
\* registry, and the step that looks the name up produces NotFound.
C5_UnloadAbsentIsNotFound ==
    [][\A t \in Threads :
          (/\ op[t] = "unload" /\ pc[t] \in {"ul_find", "ul_ret"}
           /\ moduleName[t] \notin Keys)
          => /\ CppLoadedModules' = CppLoadedModules
             /\ (pc[t] = "ul_find" /\ pc'[t] # "ul_find")
                  => (res'[t].status = "NotFound" /\ pc'[t] = "ul_ret")]_vars

\* An unload of an absent name is about to return NotFound while another
\* module is registered.
C5_AbsentNameLookedUp ==
    \E t \in Threads :
        /\ pc[t] = "ul_ret" /\ op[t] = "unload"
        /\ res[t].status = "NotFound"
        /\ moduleName[t] \notin Keys
        /\ Keys # {}

\* C6: when a reload of a name that was registered when it was called, made
\* by the only caller, is about to return and no fault was raised during it,
\* the result is Success with a descriptor of that name, the events of the
\* call are one Loaded and then one Reloaded and no other, and the registry
\* lists the name exactly once.
C6_ReloadIdentity ==
    \A t \in Threads :
        (/\ pc[t] = "rl_ret" /\ op[t] = "reload"
         /\ regBefore.set
         /\ thrown[t] = {})
        => /\ res[t].status = "Success"
           /\ res[t].has /\ res[t].module.name = moduleName[t]
           /\ EventTypes(t) = <<"Loaded", "Reloaded">>
           /\ Cardinality(Named(moduleName[t])) = 1

\* A fault-free reload of a registered module is about to return.
C6_ReloadDone ==
    \E t \in Threads :
        /\ pc[t] = "rl_ret" /\ op[t] = "reload"
        /\ regBefore.set
        /\ thrown[t] = {}
        /\ Cardinality(Keys) = 2

\* The load of thread t has failed after the path check: it is about to
\* return without success and its path is not registered, or it has come to
\* its end without returning.
FailedAfterPathCheck(t) ==
    /\ op[t] = "load"
    /\ \/ /\ pc[t] = "ld_ret"
          /\ res[t].status # "Success"
          /\ DescriptorsOf(modulePath[t]) = {}
       \/ pc[t] = "crashed"

C8_CloseFailureKeepsDescriptor ==
    \A t \in Threads :
        (pc[t] = "ul_ret" /\ "close" \in thrown[t])
        => /\ moduleName[t] \in Keys
           /\ HasEvent(t, "ErrorUnloading")
           /\ ~HasEvent(t, "Unloaded")
           /\ res[t].status = "Error"

\* An unloadModule whose close failed is about to return.
C8_CloseFailed ==
    \E t \in Threads :
        /\ pc[t] = "ul_ret" /\ op[t] = "unload"
        /\ "close" \in thrown[t]

\* C9: no step, a step of the destructor included, removes a descriptor from
\* the registry while the library of its handle is still open.
C9_NoDropWhileOpen ==
    [][\A k \in Keys :
          k \notin DOMAIN CppLoadedModules'
          => CppLoadedModules[k].libraryHandle \notin openLibs']_vars

UnloadFaults(t) == thrown[t] \cap {"shutdown", "destroy"}

\* C10: in an internal unload, a fault of shutdown() and a fault of
\* destroy_module_instance are each reported by one ErrorUnloading event;
\* after a fault the unload still reaches the close with shutdown() invoked
\* and, where the library exports it, destroy_module_instance invoked; and an
\* unload that met such faults and whose close did not fail returns Success
\* with the descriptor removed.
C10_UnloadFaultsDoNotAbort ==
    \A t \in Threads :
        /\ pc[t] \in {"ul_destroy", "ul_close", "ul_erase", "ul_unloaded", "ul_ret"}
           => /\ EventCount(t, "ErrorUnloading", "ShutdownFault", moduleName[t])
                  = (IF "shutdown" \in thrown[t] THEN 1 ELSE 0)
              /\ EventCount(t, "ErrorUnloading", "DestructorFault", moduleName[t])
                  = (IF "destroy" \in thrown[t] THEN 1 ELSE 0)
        /\ (pc[t] = "ul_close" /\ UnloadFaults(t) # {})
           => /\ libHandle[t] \in shutInsts
              /\ LibHasDestroy(modulePath[t]) => libHandle[t] \in deadInsts
        /\ (pc[t] = "ul_ret" /\ UnloadFaults(t) # {} /\ "close" \notin thrown[t])
           => /\ res[t].status = "Success"
              /\ moduleName[t] \notin Keys

\* An unloadModule in which shutdown() and destroy_module_instance both
\* faulted is about to return Success.
C10_BothFaultedAndUnloaded ==
    \E t \in Threads :
        /\ pc[t] = "ul_ret" /\ op[t] = "unload"
        /\ thrown[t] = {"shutdown", "destroy"}
        /\ res[t].status = "Success"

\* The positions at which a public call hands its outcome to the caller.
Returning == {"ld_ret", "ul_ret", "rl_ret", "rl_unwind"}

\* C11: whenever a call of load, unload or reload hands its outcome to the
\* caller, the outcome is a ModuleResult with status Success, Error or
\* NotFound: no exception raised by module code leaves the call.
C11_NoFaultEscapes ==
    \A t \in Threads :
        pc[t] \in Returning => res[t].status \in {"Success", "Error", "NotFound"}

\* Thread t is between the unlock of its reload and the lock of the load.
InGap(t) == pc[t] = "ld_lock" /\ op[t] = "reload"

\* C12: the step by which a reload leaves its internal unload for its load
\* leaves the mutex free and the module absent from the registry, and while
\* the reload is in that window it does not hold the mutex.
C12_ReloadOpensGap ==
    [][\A t \in Threads :
          /\ (pc[t] = "rl_unlock" /\ pc'[t] = "ld_lock")
             => /\ CppModuleMutex' = 0
                /\ moduleName[t] \notin DOMAIN CppLoadedModules'
          /\ InGap(t)' => CppModuleMutex' # t]_vars

\* A reload is in the window; another thread has listed the modules without
\* the reloaded one and has then loaded the same path with success.
C12_SeenAbsentAndLoadedInGap ==
    \E t \in Threads, u \in Threads :
        /\ InGap(t) /\ u # t
        /\ listed[u] # NoList
        /\ \A i \in DOMAIN listed[u] : listed[u][i].name # moduleName[t]
        /\ Quiet(u)
        /\ res[u].status = "Success"
        /\ res[u].module.path = modulePath[t]
        /\ moduleName[t] \in Keys

\* Thread t's reload is handing over its outcome after its internal unload
\* succeeded and its load did not.
LoadFailedInReload(t) ==
    /\ op[t] = "reload"
    /\ pc[t] \in {"rl_ret", "rl_unwind"}
    /\ res[t].msg \notin {"ReloadNotFound", "ReloadUnloadFailed", "Reloaded"}

\* C13: a reload whose internal unload succeeded and whose load failed has
\* emitted an ErrorLoading event, returns Error, and leaves no descriptor
\* with the module's name in the registry.
C13_FailedReloadReportsAndRemoves ==
    \A t \in Threads :
        LoadFailedInReload(t)
        => /\ res[t].status = "Error"
           /\ EventCount(t, "ErrorLoading", "ReloadLoadFailed", moduleName[t]) = 1
           /\ Named(moduleName[t]) = {}

\* C14: a reload of a name that is not in the registry goes from its lookup
\* straight to its return with NotFound, and neither the call, the lookup
\* nor the return emits an event or changes the registry.
C14_ReloadAbsentIsNotFound ==
    [][\A t \in Threads :
          /\ (pc[t] = "idle" /\ pc'[t] = "rl_find")
             => /\ evts'[t] = <<>>
                /\ CppLoadedModules' = CppLoadedModules
          /\ (pc[t] = "rl_find" /\ moduleName[t] \notin DOMAIN CppLoadedModules
                /\ pc'[t] # "rl_find")
             => /\ pc'[t] = "rl_ret"
                /\ res'[t].status = "NotFound"
                /\ evts'[t] = <<>>
                /\ CppLoadedModules' = CppLoadedModules
          /\ (pc[t] = "rl_ret" /\ res[t].status = "NotFound" /\ pc'[t] # "rl_ret")
             => /\ pc'[t] = "idle"
                /\ evts[t] = <<>> /\ evts'[t] = <<>>
                /\ CppLoadedModules' = CppLoadedModules]_vars

\* A reload is returning NotFound from a registry that holds another module.
C14_AbsentNameReloaded ==
    \E t \in Threads :
        /\ op[t] = "reload" /\ pc[t] = "rl_ret"
        /\ res[t].status = "NotFound"
        /\ moduleName[t] \notin Keys
        /\ Keys # {}

\* C15: when the internal unload of a reload comes back after the library
\* refused to close, the reload's next step broadcasts ErrorUnloading and
\* goes to its return with Error, without passing through the load, and the
\* registry, the module's descriptor included, is as the unload left it.
C15_FailedUnloadAbortsReload ==
    [][\A t \in Threads :
          (/\ pc[t] = "ul_ret" /\ op[t] = "reload"
           /\ "close" \in thrown[t]
           /\ pc'[t] # "ul_ret")
          => /\ pc'[t] = "rl_ret"
             /\ res'[t].status = "Error"
             /\ EventCount(t, "ErrorUnloading", "ReloadUnloadFailed", moduleName[t])' = 1
             /\ ~HasEvent(t, "ErrorLoading")' /\ ~HasEvent(t, "Loaded")'
             /\ CppLoadedModules' = CppLoadedModules
             /\ moduleName[t] \in DOMAIN CppLoadedModules'
             /\ libHandle[t] \in openLibs']_vars

\* A reload is returning Error after its unload could not close the library.
C15_ReloadStoppedAtUnload ==
    \E t \in Threads :
        /\ op[t] = "reload" /\ pc[t] = "rl_ret"
        /\ "close" \in thrown[t]
        /\ res[t].status = "Error"
        /\ moduleName[t] \in Keys

\* Thread t's load is returning after its instance reported a registered name.
DuplicateNameReturn(t) ==
    /\ op[t] = "load" /\ pc[t] = "ld_ret"
    /\ res[t].msg = "DuplicateName"

\* What a load turned away for its name leaves behind, the library apart:
\* the instance destroyed when the library has a destructor symbol, exactly
\* one event, an ErrorLoading, Error returned, and the registry, the
\* descriptor of that name included, as it was when the load was called.
DuplicateNameUnwound(t) ==
    /\ LibHasDestroy(modulePath[t]) => moduleInstance[t] \in deadInsts
    /\ EventTypes(t) = <<"ErrorLoading">>
    /\ res[t].status = "Error"
    /\ res[t].module.name \in Keys
    /\ CppLoadedModules = regBefore.reg

C17_DescriptorsHaveHandleAndInstance ==
    \A k \in Keys :
        /\ CppLoadedModules[k].libraryHandle # 0
        /\ CppLoadedModules[k].instance # 0

\* A load has just put its descriptor in the registry beside another one.
C17_DescriptorInserted ==
    \E t \in Threads :
        /\ pc[t] = "ld_ret" /\ res[t].status = "Success"
        /\ res[t].module.name \in Keys
        /\ CppLoadedModules[res[t].module.name].instance = moduleInstance[t]
        /\ moduleInstance[t] # 0
        /\ Cardinality(Keys) = 2

\* C18: a thread inside a section of the registry holds the mutex, and no
\* thread has entered a section while another was inside one.
C18_SectionsHoldTheMutex ==
    /\ \A t \in Threads : InSection(t) => CppModuleMutex = t
    /\ ~Raced

\* Some callback of the list faults when invoked.
Faulty(callbacks) == \E i \in DOMAIN callbacks : callbacks[i] = "throws"

C20_SubscribeInCallbackCompletes ==
    \A t \in Threads :
        /\ pc[t] # "deadlocked"
        /\ \A i \in DOMAIN evts[t] :
              (\E j \in DOMAIN evts[t][i].to : evts[t][i].to[j] = "subscribes")
              => Len(CppEventCallbacks) > Len(evts[t][i].to)

\* The events a step of thread t adds to those of its call.
Delivered(t) == {i \in DOMAIN evts'[t] : i \notin DOMAIN evts[t]}

\* C21: every event is handed to all subscribed callbacks in the step that
\* emits it, taken by the calling thread inside its operation with the mutex
\* held; a Loaded event is emitted with its descriptor in the registry and
\* an Unloaded event with its descriptor removed.
C21_EventsFollowTheRegistry ==
    [][\A t \in Threads : \A i \in Delivered(t) :
          /\ evts'[t][i].to = CppEventCallbacks
          /\ CppModuleMutex = t /\ pc[t] \notin {"idle", "ld_lock", "rl_relock"}
          /\ evts'[t][i].type = "Loaded"
             => /\ evts'[t][i].info.name \in DOMAIN CppLoadedModules
                /\ CppLoadedModules[evts'[t][i].info.name] = evts'[t][i].info
          /\ evts'[t][i].type = "Unloaded"
             => evts'[t][i].info.name \notin DOMAIN CppLoadedModules]_vars

\* An unload is returning after its Unloaded event went to two callbacks.
C21_UnloadedDelivered ==
    \E t \in Threads :
        /\ pc[t] = "ul_ret" /\ op[t] = "unload"
        /\ Len(CppEventCallbacks) = 2
        /\ \E i \in DOMAIN evts[t] :
              /\ evts[t][i].type = "Unloaded"
              /\ evts[t][i].to = CppEventCallbacks
              /\ evts[t][i].info.name \notin Keys

\* C22: the destructor's snapshot names every descriptor of the registry
\* once; each round of its loop starts the suppressed internal unload of the
\* next name of the snapshot, whatever the unload before it returned; the
\* loop ends only when the snapshot is used up; no Unloaded event is
\* emitted; and the destructor leaves the registry empty.
C22_TeardownUnloadsEachOnce ==
    [][\A t \in Threads :
          op'[t] = "teardown"
          => /\ (pc[t] = "td_snap" /\ pc'[t] = "td_loop")
                => /\ {tdNames'[i] : i \in DOMAIN tdNames'} = DOMAIN CppLoadedModules
                   /\ Len(tdNames') = Cardinality(DOMAIN CppLoadedModules)
             /\ (pc[t] \in {"td_loop", "ul_ret"} /\ pc'[t] # pc[t])
                => IF tdNames = <<>>
                   THEN pc'[t] = "td_clear"
                   ELSE /\ pc'[t] = "ul_find"
                        /\ moduleName'[t] = Head(tdNames)
                        /\ tdNames' = Tail(tdNames)
                        /\ isReloading(t)'
             /\ pc[t] \notin {"td_snap", "td_loop", "ul_ret"} => tdNames' = tdNames
             /\ ~HasEvent(t, "Unloaded")'
             /\ pc'[t] = "destroyed" => CppLoadedModules' = EmptyRegistry]_vars

\* The destructor's loop is over after an unload whose close failed left its
\* descriptor behind and another unload removed its own.
C22_LoopWentOnAfterFailure ==
    \E t \in Threads :
        /\ op[t] = "teardown" /\ pc[t] = "td_clear"
        /\ \E k \in Keys : CppLoadedModules[k].instance \in shutInsts
        /\ res[t].status = "Success"

\* The threads whose load has returned Success: those that have the result
\* in hand, are inside their unload, or are back from it.
successfulLoads ==
    {t \in Threads : \/ LoadedOwn(t)
                     \/ op[t] = "unload"
                     \/ Quiet(t) /\ res[t].msg \in {"Unloaded", "UnloadFailure", "NotFound"}}

\* The threads whose unload has returned Success.
successfulUnloads ==
    {t \in Threads : Quiet(t) /\ res[t].status = "Success" /\ res[t].msg = "Unloaded"}

\* Every thread is through: its load failed, or its unload has returned.
AllJoined == \A t \in Threads : Quiet(t) /\ HasCalled(t) /\ ~LoadedOwn(t)

\* C23: when all threads are through and no call met a fault, exactly one
\* load and exactly one unload returned Success.
C23_OneLoadOneUnload ==
    (AllJoined /\ faults = 0)
    => /\ Cardinality(successfulLoads) = 1
       /\ Cardinality(successfulUnloads) = 1

\* No unload came back with the library still open.
NoCloseFailure == \A t \in Threads : res[t].msg # "UnloadFailure"

\* C24: no call ends the process or leaves by an exception instead of
\* returning, and when all threads are through and no unload failed to
\* close the library, the registry is empty.
C24_AllReturnAndRegistryEmpty ==
    /\ \A t \in Threads : pc[t] # "crashed" /\ res[t].status # "Exception"
    /\ (AllJoined /\ NoCloseFailure) => Keys = {}

\* Thread t's loadModule is returning Success.
LoadSucceeded(t) == op[t] = "load" /\ pc[t] = "ld_ret" /\ res[t].status = "Success"

\* C25: a load that returns Success returns a descriptor with the name and
\* version the instance reports and the path it was given; the registry is
\* the registry at the call with exactly that descriptor added under that
\* name; and the call emitted one event, a Loaded carrying that descriptor.
C25_SuccessfulLoad ==
    \A t \in Threads :
        LoadSucceeded(t)
        => /\ res[t].has
           /\ res[t].module.name = LibName(modulePath[t])
           /\ res[t].module.version = LibVersion(modulePath[t])
           /\ res[t].module.path = modulePath[t]
           /\ res[t].module.name \notin DOMAIN regBefore.reg
           /\ DOMAIN CppLoadedModules = DOMAIN regBefore.reg \cup {res[t].module.name}
           /\ CppLoadedModules[res[t].module.name] = res[t].module
           /\ \A k \in DOMAIN regBefore.reg : CppLoadedModules[k] = regBefore.reg[k]
           /\ Len(evts[t]) = 1
           /\ evts[t][1].type = "Loaded" /\ evts[t][1].info = res[t].module

\* A load of the second version is returning Success beside another module.
C25_SecondModuleLoaded ==
    \E t \in Threads :
        /\ LoadSucceeded(t)
        /\ res[t].module.version = "2.0.0"
        /\ Cardinality(Keys) = 2

\* Thread t's unloadModule of a module that was registered is returning and
\* met no fault.
FaultFreeUnload(t) ==
    /\ op[t] = "unload" /\ pc[t] = "ul_ret"
    /\ regBefore.set /\ moduleName[t] \in DOMAIN regBefore.reg
    /\ thrown[t] = {}

\* C26: a public unload of a registered module that met no fault returns
\* Success with a snapshot of that name, the registry is the registry at the
\* call without that descriptor, and the call emitted one event, an
\* Unloaded carrying that name.
C26_FaultFreeUnload ==
    \A t \in Threads :
        FaultFreeUnload(t)
        => /\ res[t].status = "Success" /\ res[t].has
           /\ res[t].module.name = moduleName[t]
           /\ DOMAIN CppLoadedModules = DOMAIN regBefore.reg \ {moduleName[t]}
           /\ \A k \in DOMAIN CppLoadedModules : CppLoadedModules[k] = regBefore.reg[k]
           /\ Len(evts[t]) = 1
           /\ evts[t][1].type = "Unloaded" /\ evts[t][1].info.name = moduleName[t]

\* A fault-free unload is returning from a registry that held two modules,
\* its event handed to a subscribed callback.
C26_OneOfTwoUnloaded ==
    \E t \in Threads :
        /\ FaultFreeUnload(t)
        /\ Cardinality(DOMAIN regBefore.reg) = 2
        /\ Cardinality(Keys) = 1
        /\ CppEventCallbacks # <<>>

\* Thread t's public call is handing a result other than Success to its caller.
ReturnsFailure(t) ==
    /\ \/ pc[t] = "ld_ret" /\ op[t] = "load"
       \/ pc[t] = "ul_ret" /\ op[t] = "unload"
       \/ pc[t] = "rl_ret" /\ op[t] = "reload"
    /\ res[t].status \in {"Error", "NotFound"}

ErrorEmitted(t) == HasEvent(t, "ErrorLoading") \/ HasEvent(t, "ErrorUnloading")

\* C27 as stated: every call that returns a result other than Success has
\* emitted an ErrorLoading or ErrorUnloading event.
C27_EveryFailureAnnounced ==
    \A t \in Threads : ReturnsFailure(t) => ErrorEmitted(t)

\* C27: every call that returns a result other than Success has emitted an
\* ErrorLoading or ErrorUnloading event, unless it is a load turned away
\* because its path is loaded or a reload that did not find its name.
C27_FailuresAnnouncedButTwo ==
    \A t \in Threads :
        (ReturnsFailure(t) /\ res[t].msg \notin {"AlreadyLoaded", "ReloadNotFound"})
        => ErrorEmitted(t)

\* A load is returning Error for a library that could not be opened, after
\* its ErrorLoading event.
C27_OpenFailureAnnounced ==
    \E t \in Threads :
        /\ ReturnsFailure(t)
        /\ res[t].msg = "LoadFailure"
        /\ EventTypes(t) = <<"ErrorLoading">>

\* C28: the step of internalUnloadModule that does not find its name
\* produces NotFound; called by unloadModule it adds one event, an
\* ErrorUnloading naming the module; called with the suppressing flag it
\* adds none.  Reload and the destructor, the callers that suppress, never
\* start an internal unload of a name that is not in the registry.
C28_AbsentNameEvents ==
    [][\A t \in Threads :
          /\ (pc[t] = "ul_find" /\ moduleName[t] \notin DOMAIN CppLoadedModules
                /\ pc'[t] # "ul_find")
             => /\ res'[t].status = "NotFound"
                /\ IF op[t] \in {"reload", "teardown"}
                   THEN evts'[t] = evts[t]
                   ELSE /\ Len(evts'[t]) = Len(evts[t]) + 1
                        /\ evts'[t][Len(evts'[t])].type = "ErrorUnloading"
                        /\ evts'[t][Len(evts'[t])].info.name = moduleName[t]
          /\ (pc'[t] = "ul_find" /\ op'[t] \in {"reload", "teardown"})
             => moduleName'[t] \in DOMAIN CppLoadedModules']_vars

\* A public unload of an absent name is returning NotFound after its one
\* event while another thread is waiting inside a reload.
C28_AbsentUnloadAnnounced ==
    \E t \in Threads, u \in Threads :
        /\ pc[t] = "ul_ret" /\ op[t] = "unload"
        /\ res[t].status = "NotFound"
        /\ EventTypes(t) = <<"ErrorUnloading">>
        /\ op[u] = "reload" /\ pc[u] = "ld_lock"

\* Thread t is inside internalUnloadModule.
Unloading(t) ==
    pc[t] \in {"ul_shutdown", "ul_destroy", "ul_close", "ul_erase", "ul_unloaded"}

\* C29: inside an unload, the destructor symbol is invoked only on an
\* instance whose shutdown hook has been called and whose library is open;
\* the library is closed only after the shutdown hook and, when the library
\* has the destructor symbol, after the destructor; the descriptor is
\* removed only after the library is closed; and Unloaded is emitted only
\* after the descriptor is removed.
C29_UnloadOrder ==
    [][\A t \in Threads :
          (Unloading(t) /\ pc'[t] # pc[t])
          => /\ deadInsts' \ deadInsts # {}
                => /\ deadInsts' \ deadInsts = {moduleInstance[t]}
                   /\ moduleInstance[t] \in shutInsts
                   /\ libHandle[t] \in openLibs
             /\ openLibs \ openLibs' # {}
                => /\ openLibs \ openLibs' = {libHandle[t]}
                   /\ libHandle[t] \in shutInsts
                   /\ LibHasDestroy(modulePath[t]) => libHandle[t] \in deadInsts
                   /\ moduleName[t] \in DOMAIN CppLoadedModules
             /\ CppLoadedModules' # CppLoadedModules
                => /\ libHandle[t] \notin openLibs
                   /\ ~HasEvent(t, "Unloaded")
             /\ (HasEvent(t, "Unloaded")' /\ ~HasEvent(t, "Unloaded"))
                => moduleName[t] \notin DOMAIN CppLoadedModules]_vars

\* An unload of a module whose library has the destructor symbol is
\* returning Success after its Unloaded event.
C29_UnloadedInOrder ==
    \E t \in Threads :
        /\ pc[t] = "ul_ret" /\ op[t] = "unload"
        /\ LibHasDestroy(modulePath[t])
        /\ res[t].status = "Success"
        /\ HasEvent(t, "Unloaded")
        /\ thrown[t] = {"shutdown", "destroy"}

\* Thread t works on a library that has the factory and lacks the
\* destructor symbol.
NoDestructor(t) ==
    /\ modulePath[t] # ""
    /\ LibHasCreate(modulePath[t]) /\ ~LibHasDestroy(modulePath[t])

\* C30: the missing destructor symbol does not stop a load: the symbol
\* lookup goes on to the factory; and a step of a thread working on a
\* library without the destructor symbol destroys no instance, while the
\* cleanup after a failed initialize or a name collision and the unload
\* still close the library unless the close fails.
C30_NoDestructorNoDeletion ==
    [][\A t \in Threads :
          (NoDestructor(t) /\ pc'[t] # pc[t])
          => /\ deadInsts' \subseteq deadInsts
             /\ pc[t] = "ld_sym" => (pc'[t] = "ld_create" /\ evts' = evts)
             /\ (\/ pc[t] \in {"ld_initfail", "ul_close"}
                 \/ /\ pc[t] = "ld_name"
                    /\ LibName(modulePath[t]) \in DOMAIN CppLoadedModules
                    /\ res'[t].status # "Exception")
                => \/ libHandle[t] \notin openLibs'
                   \/ "close" \in thrown'[t]]_vars

\* A load from a library without the destructor symbol is returning
\* DuplicateName, its library closed and its instance not destroyed, while
\* a module loaded from another library without the symbol is registered.
C30_CollisionWithoutDestructor ==
    \E t \in Threads :
        /\ op[t] = "load" /\ pc[t] = "ld_ret"
        /\ res[t].msg = "DuplicateName"
        /\ NoDestructor(t)
        /\ libHandle[t] \notin openLibs
        /\ moduleInstance[t] \notin deadInsts
        /\ \E k \in Keys : ~LibHasDestroy(CppLoadedModules[k].path)

\* C31: every step in which internalUnloadModule invokes the destructor
\* symbol acts on an instance the destructor symbol was not invoked on
\* before.
C31_DestroyedAtMostOnce ==
    [][\A t \in Threads :
          (/\ pc[t] = "ul_destroy" /\ pc'[t] \in {"ul_close", "deadlocked"}
           /\ LibHasDestroy(modulePath[t]))
          => moduleInstance[t] \notin deadInsts]_vars

\* C32: a step that adds a descriptor is the insert of a load, adds it under
\* the name of that load's module with that load's path, and only Loaded and
\* Success follow it; a step that removes a descriptor is the erase of an
\* internal unload of that name or the destructor's clear; and no step
\* alters a descriptor that stays.
C32_OnlyTheTargetChanges ==
    [][/\ \A k \in DOMAIN CppLoadedModules' \ DOMAIN CppLoadedModules :
             \E t \in Threads :
                 /\ pc[t] = "ld_insert" /\ pc'[t] = "ld_loaded"
                 /\ k = LibName(modulePath[t])
                 /\ CppLoadedModules'[k].path = modulePath[t]
       /\ \A k \in DOMAIN CppLoadedModules \ DOMAIN CppLoadedModules' :
             \E t \in Threads :
                 \/ pc[t] = "ul_erase" /\ k = moduleName[t]
                 \/ pc[t] = "td_clear"
       /\ \A k \in DOMAIN CppLoadedModules \cap DOMAIN CppLoadedModules' :
             CppLoadedModules'[k] = CppLoadedModules[k]
       /\ \A t \in Threads :
             (pc[t] = "ld_loaded" /\ pc'[t] # "ld_loaded")
             => (pc'[t] = "ld_ret" /\ res'[t].status = "Success")]_vars

\* An internal unload has just erased its module and another is registered.
C32_ErasedBesideAnother ==
    \E t \in Threads :
        /\ pc[t] = "ul_unloaded"
        /\ moduleName[t] \notin Keys
        /\ Keys # {}

\* C33: a step in which listModules returns leaves the registry, the
\* callbacks, the libraries and the instances as they were, is taken while
\* no thread is inside a section of the registry, and returns every
\* registered descriptor once and nothing else.
C33_ListIsASnapshot ==
    [][\A t \in Threads :
          listed'[t] # listed[t]
          => /\ UNCHANGED <<CppLoadedModules, CppEventCallbacks, objs>>
             /\ \A u \in Threads : ~InSection(u)
             /\ Len(listed'[t]) = Cardinality(Keys)
             /\ \A k \in Keys :
                   \E i \in DOMAIN listed'[t] :
                       /\ listed'[t][i] = CppLoadedModules[k]
                       /\ \A j \in DOMAIN listed'[t] :
                             listed'[t][j] = CppLoadedModules[k] => j = i]_vars

\* A thread holds a list with a descriptor in it, and its own load has
\* failed.
C33_ListedAfterFailedLoad ==
    \E t \in Threads :
        /\ listed[t] # NoList
        /\ Len(listed[t]) > 0
        /\ Quiet(t)
        /\ res[t].status = "Error"

\* C34: every step in which the loader calls a method of an instance
\* (initialize, getName, getVersion, shutdown) acts on an instance whose
\* destructor symbol was not invoked and whose library is open.
C34_NoCallAfterDestroyOrClose ==
    [][\A t \in Threads :
          (/\ pc[t] \in {"ld_init", "ld_initfail_name", "ld_name", "ul_shutdown"}
           /\ pc'[t] # pc[t])
          => ~Dangling(moduleInstance[t])]_vars

\* C35: while no operation is in progress, no descriptor in the registry
\* refers to an instance whose shutdown hook or destructor symbol was
\* invoked.
C35_RegisteredInstancesLive ==
    (Running /\ \A t \in Threads : Quiet(t))
    => \A k \in Keys :
          CppLoadedModules[k].instance \notin (shutInsts \cup deadInsts)

\* C36: while no operation is in progress, the libraries that are open are
\* the library handles of the registry's descriptors, no two descriptors
\* hold the same handle, and no load has returned leaving a library open
\* that no descriptor holds.
C36_HandlesOwnedOnce ==
    (Running /\ \A t \in Threads : Quiet(t))
    => /\ ~leaked
       /\ openLibs = {CppLoadedModules[k].libraryHandle : k \in Keys}
       /\ \A j \in Keys, k \in Keys :
             CppLoadedModules[j].libraryHandle = CppLoadedModules[k].libraryHandle
             => j = k

\* C37: when a reload has delivered Reloaded and is about to return
\* Success, the registry holds a descriptor with the name and the path of
\* the descriptor the event and the result carry.
C37_ReloadedIsRegistered ==
    \A t \in Threads :
        (pc[t] = "rl_ret" /\ res[t].status = "Success")
        => /\ HasEvent(t, "Reloaded")
           /\ res[t].module.name \in Keys
           /\ CppLoadedModules[res[t].module.name].path = res[t].module.path

----------------------------------------------------------------------------
\* Every thread calls loadModule, unloadModule and reloadModule at will.
\* Module code and callbacks return: no method of a module throws and no
\* callback is subscribed; the operating system may still decline to close
\* a library.  A thread inside an operation goes on, and a thread waiting
\* for the mutex gets it if it is free again and again.

ModuleCodeReturns == \A t \in Threads : thrown'[t] \subseteq {"close"}

Acquire(t) == LoadLock(t) \/ ReloadRelock(t)

Proceed(t) ==
    \/ LoadPathCheck(t) \/ LoadOpen(t) \/ LoadSym(t)
    \/ LoadCreate(t) /\ ModuleCodeReturns
    \/ LoadInit(t) /\ ModuleCodeReturns
    \/ LoadName(t) /\ ModuleCodeReturns
    \/ LoadInsert(t) \/ LoadLoaded(t) \/ LoadReturn(t, NoResult)
    \/ UnloadFind(t)
    \/ UnloadShutdown(t) /\ ModuleCodeReturns
    \/ UnloadDestroy(t) /\ ModuleCodeReturns
    \/ UnloadClose(t) \/ UnloadErase(t) \/ UnloadUnloaded(t)
    \/ UnloadReturn(t, NoResult)
    \/ ReloadFind(t) \/ ReloadAfterUnload(t) \/ ReloadUnlock(t)
    \/ ReloadFinish(t) \/ ReloadReturn(t, NoResult)

NextFair ==
    \E t \in Threads :
        \/ \E p \in Paths : CallLoad(t, p, regBefore)
        \/ \E n \in Names : CallUnload(t, n, regBefore)
        \/ \E n \in Names : CallReload(t, n, regBefore)
        \/ LoadLock(t) \/ ReloadRelock(t)
        \/ Proceed(t)

SpecFair ==
    /\ Init
    /\ [][NextFair]_vars
    /\ \A t \in Threads : WF_vars(Proceed(t)) /\ SF_vars(Acquire(t))

\* C38: every call returns with the mutex released: a thread that is inside
\* an operation or waits for the mutex is eventually between calls and does
\* not own the mutex.
C38_EveryCallReturns ==
    \A t \in Threads :
        (pc[t] # "idle") ~> (pc[t] = "idle" /\ CppModuleMutex # t)

\* The set a subscriber holds after the events es, having held S: it adds
\* the name of every Loaded event and removes the name of every Unloaded one.
RECURSIVE Mirror(_, _)
Mirror(S, es) ==
    IF es = <<>>
    THEN S
    ELSE LET e == Head(es)
         IN  Mirror(IF e.type = "Loaded" THEN S \cup {e.info.name}
                    ELSE IF e.type = "Unloaded" THEN S \ {e.info.name}
                    ELSE S,
                    Tail(es))

\* C39: when a call is about to return, a subscriber that held the names of
\* the registry when the call began and has followed the call's Loaded and
\* Unloaded events holds the names of the registry.
C39_SubscriberMirrorsRegistry ==
    \A t \in Threads :
        (/\ \/ pc[t] = "ld_ret" /\ op[t] = "load"
            \/ pc[t] = "ul_ret" /\ op[t] = "unload"
            \/ pc[t] = "rl_ret"
         /\ regBefore.set
         /\ CppEventCallbacks # <<>> /\ ~Reenters
         /\ \A i \in DOMAIN evts[t] : evts[t][i].to # <<>>)
        => Mirror(DOMAIN regBefore.reg, evts[t]) = Keys

\* The callbacks the walk over callbacks_copy has entered when it blocks in
\* the first callback that calls subscribeToModuleEvents.
RECURSIVE UntilReentry(_)
UntilReentry(callbacks_copy) ==
    IF callbacks_copy = <<>> THEN <<>>
    ELSE IF Head(callbacks_copy) = "subscribes" THEN <<"subscribes">>
    ELSE <<Head(callbacks_copy)>> \o UntilReentry(Tail(callbacks_copy))

\* The callbacks that were invoked for the i-th event of thread t's call.
Ran(t, i) ==
    IF pc[t] = "deadlocked" /\ i = Len(evts[t])
    THEN UntilReentry(evts[t][i].to)
    ELSE evts[t][i].to

\* C40: for every event a call has emitted, the callbacks invoked are the
\* subscribed callbacks, each once and in the order of subscription.
C40_EveryCallbackInvoked ==
    \A t \in Threads : \A i \in DOMAIN evts[t] : Ran(t, i) = CppEventCallbacks

====
